---- MODULE Spec2Model ----
(***************************************************************************)
(* Contract translator: the refinement decision (core/agents.py), the      *)
(* audit/refine loop it gates (core/translator.py), the Solidity           *)
(* compilation checker (core/solidity_compiler.py) and the demo launcher   *)
(* (launch_demo.py).                                                       *)
(*                                                                         *)
(* Python values are tagged records, strings are sequences of one-         *)
(* character strings, a dict is a function whose DOMAIN is its key set.    *)
(***************************************************************************)
EXTENDS Integers, Sequences, FiniteSets, TLC

VARIABLES
    \* one call of should_refine
    audit_report, refinement_count, max_iterations, decision,
    \* one translation request of the orchestrator
    phase, code, audit, iteration_count, max_refinement_iterations,
    code_version, audited_version, refiner_calls, auditor_calls,
    refiner_input, returned,
    \* one call of check_compilation and the files it touches
    solidity_code, compiler_cmd, solc_available, pc, modified_code,
    output_dir, output_dir_created, artifacts, tmp_file, tmp_content,
    calls, compile_run, pending, result, raised, fault,
    \* calls of _strip_version_pragma on a text built from lines
    strip_lines, stripped, stripped_again,
    \* one run of the launcher script
    demo_exists, sampler_exists, importable, lpc, dep_index, pip_installed,
    printed, http_server, api_process, open_calls, exit_code

decideVars == <<audit_report, refinement_count, max_iterations, decision>>

loopVars == <<phase, code, audit, iteration_count, max_refinement_iterations,
              code_version, audited_version, refiner_calls, auditor_calls,
              refiner_input, returned>>

compileVars == <<solidity_code, compiler_cmd, solc_available, pc,
                 modified_code, output_dir, output_dir_created, artifacts,
                 tmp_file, tmp_content, calls, compile_run, pending, result,
                 raised, fault>>

stripVars == <<strip_lines, stripped, stripped_again>>

launchVars == <<demo_exists, sampler_exists, importable, lpc, dep_index,
                pip_installed, printed, http_server, api_process, open_calls,
                exit_code>>

vars == <<decideVars, loopVars, compileVars, stripVars, launchVars>>

----------------------------------------------------------------------------
(* Bounds of the model *)

\* should_refine is tried on refinement_count and max_iterations in -1..MaxCount
MaxCount == 3

\* the orchestrator is run with a configured maximum in 0..MaxConfigured
MaxConfigured == 3

\* distinct code texts the generator and the refiner can return
NumCodes == 2

\* _strip_version_pragma is tried on texts of at most MaxSourceLines lines
MaxSourceLines == 3

----------------------------------------------------------------------------
(* Python values *)

PyNone == [t |-> "none"]

PyBool(b) == [t |-> "bool", b |-> b]

PyStr(s) == [t |-> "str", s |-> s]

\* bool(v): None and the empty string are falsy
Truthy(v) ==
    CASE v.t = "none" -> FALSE
      [] v.t = "bool" -> v.b
      [] v.t = "str"  -> Len(v.s) > 0

\* dict.get(key, default)
Get(d, key, default) == IF key \in DOMAIN d THEN d[key] ELSE default

UpperChars == <<"A","B","C","D","E","F","G","H","I","J","K","L","M",
                "N","O","P","Q","R","S","T","U","V","W","X","Y","Z">>

LowerChars == <<"a","b","c","d","e","f","g","h","i","j","k","l","m",
                "n","o","p","q","r","s","t","u","v","w","x","y","z">>

\* str.lower() on one character: only cased characters change
LowerChar(c) ==
    IF \E i \in 1..Len(UpperChars) : UpperChars[i] = c
    THEN LowerChars[CHOOSE i \in 1..Len(UpperChars) : UpperChars[i] = c]
    ELSE c

\* str.lower()
Lower(s) == [i \in 1..Len(s) |-> LowerChar(s[i])]

Return(v) == [kind |-> "return", value |-> v]

Raise(e) == [kind |-> "raise", exc |-> e]

----------------------------------------------------------------------------
(* Python str methods, on sequences of characters *)

\* the characters str.strip() removes
Whitespace == {" ", "\t", "\n", "\r", "\f"}

RECURSIVE LStrip(_)
LStrip(s) ==
    IF s # <<>> /\ Head(s) \in Whitespace THEN LStrip(Tail(s)) ELSE s

RECURSIVE RStrip(_)
RStrip(s) ==
    IF s # <<>> /\ s[Len(s)] \in Whitespace
    THEN RStrip(SubSeq(s, 1, Len(s) - 1))
    ELSE s

\* str.strip()
Strip(s) == RStrip(LStrip(s))

\* str.startswith(prefix)
StartsWith(s, prefix) ==
    /\ Len(s) >= Len(prefix)
    /\ SubSeq(s, 1, Len(prefix)) = prefix

\* sub in s
Contains(s, sub) ==
    \E i \in 1..(Len(s) - Len(sub) + 1) : SubSeq(s, i, i + Len(sub) - 1) = sub

\* str.split('\n'): the pieces between the newlines, at least one piece
RECURSIVE SplitLines(_)
SplitLines(s) ==
    IF \E i \in 1..Len(s) : s[i] = "\n"
    THEN LET i == CHOOSE k \in 1..Len(s) :
                     /\ s[k] = "\n"
                     /\ \A j \in 1..(k - 1) : s[j] # "\n"
         IN  <<SubSeq(s, 1, i - 1)>> \o SplitLines(SubSeq(s, i + 1, Len(s)))
    ELSE <<s>>

\* '\n'.join(lines)
RECURSIVE JoinLines(_)
JoinLines(lines) ==
    IF lines = <<>> THEN <<>>
    ELSE IF Len(lines) = 1 THEN lines[1]
    ELSE lines[1] \o <<"\n">> \o JoinLines(Tail(lines))

\* UTF-8 cannot encode a lone surrogate: writing it raises UnicodeEncodeError
Encodable(s) == \A i \in 1..Len(s) : s[i] # "U+DC80"

----------------------------------------------------------------------------
(* core/agents.py *)

DEFAULT_MAX_REFINEMENT_ITERATIONS == 2

S_none == <<"n","o","n","e">>
S_low == <<"l","o","w">>
S_medium == <<"m","e","d","i","u","m">>
S_high == <<"h","i","g","h">>
S_critical == <<"c","r","i","t","i","c","a","l">>
S_unknown == <<"u","n","k","n","o","w","n">>

\* the list the severity is looked up in
RefineSeverities == {S_medium, S_high, S_critical}

\* should_refine with the iteration limit tested with > instead of >=
should_refine_off_by_one(report, count, max) ==
    IF count > max
    THEN Return(FALSE)
    ELSE LET sev == Get(report, "severity_level", PyStr(S_unknown))
             approved == Get(report, "approved", PyBool(FALSE))
         IN  IF sev.t # "str"
             THEN Raise("AttributeError")
             ELSE IF ~Truthy(approved) /\ Lower(sev.s) \in RefineSeverities
                  THEN Return(TRUE)
                  ELSE Return(FALSE)

\* should_refine with the iteration limit tested after the report is read
should_refine_limit_last(report, count, max) ==
    LET sev == Get(report, "severity_level", PyStr(S_unknown))
        approved == Get(report, "approved", PyBool(FALSE))
    IN  IF sev.t # "str"
        THEN Raise("AttributeError")
        ELSE IF count >= max
             THEN Return(FALSE)
             ELSE IF ~Truthy(approved) /\ Lower(sev.s) \in RefineSeverities
                  THEN Return(TRUE)
                  ELSE Return(FALSE)

\* should_refine that looks at the severity only
should_refine_ignores_approved(report, count, max) ==
    IF count >= max
    THEN Return(FALSE)
    ELSE LET sev == Get(report, "severity_level", PyStr(S_unknown))
         IN  IF sev.t # "str"
             THEN Raise("AttributeError")
             ELSE IF Lower(sev.s) \in RefineSeverities
                  THEN Return(TRUE)
                  ELSE Return(FALSE)

\* should_refine(audit_report, refinement_count, max_iterations): the value
\* returned, or the exception .lower() raises on a severity that is no string
should_refine(report, count, max) ==
    IF count >= max
    THEN Return(FALSE)
    ELSE LET sev == Get(report, "severity_level", PyStr(S_unknown))
             approved == Get(report, "approved", PyBool(FALSE))
         IN  IF sev.t # "str"
             THEN Raise("AttributeError")
             ELSE IF ~Truthy(approved) /\ Lower(sev.s) \in RefineSeverities
                  THEN Return(TRUE)
                  ELSE Return(FALSE)

----------------------------------------------------------------------------
(* Inputs should_refine is tried on *)

\* the six severity levels of an audit report
SeverityLevels == {S_none, S_low, S_medium, S_high, S_critical, S_unknown}

\* other texts: other case, padding, an unlisted word, the empty string
OtherSeverityTexts ==
    { <<"H","I","G","H">>, <<"M","e","d","i","u","m">>,
      <<"C","R","I","T","I","C","A","L">>, <<"L","o","w">>,
      <<" ","h","i","g","h">>, <<"i","n","f","o">>, <<>> }

SeverityValues ==
    {PyStr(s) : s \in SeverityLevels \cup OtherSeverityTexts} \cup {PyNone}

ApprovedValues ==
    {PyBool(TRUE), PyBool(FALSE), PyNone, PyStr(<<"n","o">>), PyStr(<<>>)}

\* a dict with a chosen subset of the two keys should_refine reads
MakeReport(hasSev, sev, hasApp, app) ==
    [k \in (IF hasSev THEN {"severity_level"} ELSE {})
           \cup (IF hasApp THEN {"approved"} ELSE {})
       |-> IF k = "severity_level" THEN sev ELSE app]

AnyReports ==
    {MakeReport(TRUE, s, TRUE, a) : s \in SeverityValues, a \in ApprovedValues}
    \cup {MakeReport(TRUE, s, FALSE, PyNone) : s \in SeverityValues}
    \cup {MakeReport(FALSE, PyNone, TRUE, a) : a \in ApprovedValues}
    \cup {MakeReport(FALSE, PyNone, FALSE, PyNone)}

\* the reports of the data model: a listed severity and a boolean approved
AuditReports ==
    {MakeReport(TRUE, PyStr(s), TRUE, PyBool(a)) :
        s \in SeverityLevels, a \in BOOLEAN}

Pending == [kind |-> "pending"]

DecideIdle ==
    /\ audit_report = MakeReport(FALSE, PyNone, FALSE, PyNone)
    /\ refinement_count = 0
    /\ max_iterations = DEFAULT_MAX_REFINEMENT_ITERATIONS
    /\ decision = Pending

InitDecide ==
    /\ audit_report \in AnyReports
    /\ refinement_count \in -1..MaxCount
    /\ max_iterations \in -1..MaxCount
    /\ decision = Pending

\* the call: decision is what should_refine returns or raises
CallShouldRefine ==
    /\ decision = Pending
    /\ decision' = should_refine(audit_report, refinement_count, max_iterations)
    /\ UNCHANGED <<audit_report, refinement_count, max_iterations>>
    /\ UNCHANGED <<loopVars, compileVars, stripVars, launchVars>>

----------------------------------------------------------------------------
(* core/translator.py: the audit/refine loop of one translation request *)

NoCode == 0

NoReport == [kind |-> "noreport"]

NoInput == [kind |-> "noinput"]

NotReturned == [kind |-> "notreturned"]

Codes == 1..NumCodes

LoopIdle ==
    /\ phase = "Idle"
    /\ code = NoCode
    /\ audit = NoReport
    /\ iteration_count = 0
    /\ max_refinement_iterations = DEFAULT_MAX_REFINEMENT_ITERATIONS
    /\ code_version = 0
    /\ audited_version = 0
    /\ refiner_calls = 0
    /\ auditor_calls = 0
    /\ refiner_input = NoInput
    /\ returned = NotReturned

InitLoop ==
    /\ phase = "Raw"
    /\ code = NoCode
    /\ audit = NoReport
    /\ iteration_count = 0
    /\ max_refinement_iterations \in 0..MaxConfigured
    /\ code_version = 0
    /\ audited_version = 0
    /\ refiner_calls = 0
    /\ auditor_calls = 0
    /\ refiner_input = NoInput
    /\ returned = NotReturned

\* parser stage on the raw contract text
Parse ==
    /\ phase = "Raw"
    /\ phase' = "Parsed"
    /\ UNCHANGED <<code, audit, iteration_count, max_refinement_iterations,
                   code_version, audited_version, refiner_calls,
                   auditor_calls, refiner_input, returned>>
    /\ UNCHANGED <<decideVars, compileVars, stripVars, launchVars>>

\* generator stage: the first code
Generate ==
    /\ phase = "Parsed"
    /\ \E c \in Codes : code' = c
    /\ code_version' = code_version + 1
    /\ phase' = "Generated"
    /\ UNCHANGED <<audit, iteration_count, max_refinement_iterations,
                   audited_version, refiner_calls, auditor_calls,
                   refiner_input, returned>>
    /\ UNCHANGED <<decideVars, compileVars, stripVars, launchVars>>

\* Audit that drops the report of a re-audit: the first report stays
AuditDropsReaudit ==
    /\ phase \in {"Generated", "Refining"}
    /\ \E r \in AuditReports :
          audit' = IF phase = "Generated" THEN r ELSE audit
    /\ audited_version' =
          IF phase = "Generated" THEN code_version ELSE audited_version
    /\ auditor_calls' = auditor_calls + 1
    /\ phase' = "Audited"
    /\ UNCHANGED <<code, iteration_count, max_refinement_iterations,
                   code_version, refiner_calls, refiner_input, returned>>
    /\ UNCHANGED <<decideVars, compileVars, stripVars, launchVars>>

\* auditor stage on the current code (Generated -> Audited, Refining -> Audited)
Audit ==
    /\ phase \in {"Generated", "Refining"}
    /\ \E r \in AuditReports : audit' = r
    /\ audited_version' = code_version
    /\ auditor_calls' = auditor_calls + 1
    /\ phase' = "Audited"
    /\ UNCHANGED <<code, iteration_count, max_refinement_iterations,
                   code_version, refiner_calls, refiner_input, returned>>
    /\ UNCHANGED <<decideVars, compileVars, stripVars, launchVars>>

\* Refine that leaves iteration_count alone
RefineNoIncrement ==
    /\ phase = "Audited"
    /\ iteration_count <= MaxConfigured + 1   \* keeps the model finite
    /\ should_refine(audit, iteration_count, max_refinement_iterations)
           = Return(TRUE)
    /\ refiner_input' = [code |-> code, report |-> audit,
                         version |-> code_version]
    /\ \E c \in Codes : code' = c
    /\ code_version' = code_version + 1
    /\ refiner_calls' = refiner_calls + 1
    /\ iteration_count' = iteration_count
    /\ phase' = "Refining"
    /\ UNCHANGED <<audit, max_refinement_iterations, audited_version,
                   auditor_calls, returned>>
    /\ UNCHANGED <<decideVars, compileVars, stripVars, launchVars>>

\* Audited -> Refining: refiner stage on the current code and the latest report
Refine ==
    /\ phase = "Audited"
    /\ iteration_count <= MaxConfigured + 1   \* keeps the model finite
    /\ should_refine(audit, iteration_count, max_refinement_iterations)
           = Return(TRUE)
    /\ refiner_input' = [code |-> code, report |-> audit,
                         version |-> code_version]
    /\ \E c \in Codes : code' = c
    /\ code_version' = code_version + 1
    /\ refiner_calls' = refiner_calls + 1
    /\ iteration_count' = iteration_count + 1
    /\ phase' = "Refining"
    /\ UNCHANGED <<audit, max_refinement_iterations, audited_version,
                   auditor_calls, returned>>
    /\ UNCHANGED <<decideVars, compileVars, stripVars, launchVars>>

\* Audited -> Finalized: the last code and its last report are returned
Finalize ==
    /\ phase = "Audited"
    /\ should_refine(audit, iteration_count, max_refinement_iterations)
           = Return(FALSE)
    /\ returned' = [code |-> code, audit |-> audit,
                    code_version |-> code_version,
                    audited_version |-> audited_version]
    /\ phase' = "Finalized"
    /\ UNCHANGED <<code, audit, iteration_count, max_refinement_iterations,
                   code_version, audited_version, refiner_calls,
                   auditor_calls, refiner_input>>
    /\ UNCHANGED <<decideVars, compileVars, stripVars, launchVars>>

\* a stage invocation raises: the request is aborted, nothing is returned
StageRaises ==
    /\ \/ phase \in {"Raw", "Parsed", "Generated", "Refining"}
       \/ /\ phase = "Audited"
          /\ should_refine(audit, iteration_count, max_refinement_iterations)
                 = Return(TRUE)
    /\ phase' = "Aborted"
    /\ UNCHANGED <<code, audit, iteration_count, max_refinement_iterations,
                   code_version, audited_version, refiner_calls,
                   auditor_calls, refiner_input, returned>>
    /\ UNCHANGED <<decideVars, compileVars, stripVars, launchVars>>

----------------------------------------------------------------------------
(* core/solidity_compiler.py *)

\* timeout of the compile subprocess, in seconds
CompileTimeout == 30

\* timeout of the --version subprocess run after it, in seconds
VersionTimeout == 5

S_pragma_solidity == <<"p","r","a","g","m","a"," ","s","o","l","i","d","i","t","y">>

S_warning_marker == <<"W","a","r","n","i","n","g",":">>

\* the loop of _strip_version_pragma: lines whose stripped text starts with
\* 'pragma solidity' are skipped
RECURSIVE FilterPragmaLines(_)
FilterPragmaLines(lines) ==
    IF lines = <<>> THEN <<>>
    ELSE IF StartsWith(Strip(Head(lines)), S_pragma_solidity)
         THEN FilterPragmaLines(Tail(lines))
         ELSE <<Head(lines)>> \o FilterPragmaLines(Tail(lines))

\* _strip_version_pragma that tests the line as it is, without strip()
strip_version_pragma_unstripped(source) ==
    JoinLines(SelectSeq(SplitLines(source),
                        LAMBDA l : ~StartsWith(l, S_pragma_solidity)))

\* SolidityCompilationChecker._strip_version_pragma
strip_version_pragma(source) ==
    JoinLines(FilterPragmaLines(SplitLines(source)))

\* how a 'solc --version' / 'npx solcjs --version' probe can end
ProbeOutcomes == {"zero", "nonzero", "FileNotFoundError", "TimeoutExpired"}

\* SolidityCompilationChecker._check_solc_available: (compiler_cmd, available)
check_solc_available(solc_probe, npx_probe) ==
    IF solc_probe = "zero" THEN <<PyStr(<<"solc">>), TRUE>>
    ELSE IF npx_probe = "zero" THEN <<PyStr(<<"npx", "solcjs">>), TRUE>>
    ELSE <<PyNone, FALSE>>

\* a message written in the source as a literal
Lit(text) == [t |-> "lit", text |-> text]

\* f'{prefix}{str(e)}'
Fmt(prefix, e) == [t |-> "fmt", prefix |-> prefix, arg |-> e]

\* the dict check_compilation returns
Result(compiles, error_message, warnings, compiler_version) ==
    [compiles |-> compiles, error_message |-> error_message,
     warnings |-> warnings, compiler_version |-> compiler_version]

UnavailableResult ==
    Result(PyNone,
           Lit("solc compiler not available. Install with: npm install -g solc"),
           <<>>, PyNone)

TimeoutResult ==
    Result(PyBool(FALSE), Lit("Compilation timed out after 30 seconds"),
           <<>>, PyNone)

UnexpectedResult(e) ==
    Result(PyBool(FALSE), Fmt("Unexpected error during compilation: ", e),
           <<>>, PyNone)

\* [line.strip() for line in lines if 'Warning:' in line]
RECURSIVE WarningLines(_)
WarningLines(lines) ==
    IF lines = <<>> THEN <<>>
    ELSE IF Contains(Head(lines), S_warning_marker)
         THEN <<Strip(Head(lines))>> \o WarningLines(Tail(lines))
         ELSE WarningLines(Tail(lines))

\* ExtractWarnings that keeps the lines as they are, without strip()
ExtractWarningsVerbatim(stderr) ==
    SelectSeq(SplitLines(stderr), LAMBDA l : Contains(l, S_warning_marker))

\* the warnings collected when the compiler exits with 0
ExtractWarnings(stderr) ==
    IF Contains(stderr, S_warning_marker)
    THEN WarningLines(SplitLines(stderr))
    ELSE <<>>

\* the result built from the two completed subprocess runs
ParseOutput(run, compiler_version) ==
    IF run.returncode = 0
    THEN Result(PyBool(TRUE), PyNone, ExtractWarnings(run.stderr),
                compiler_version)
    ELSE Result(PyBool(FALSE), PyStr(Strip(run.stderr)), <<>>,
                compiler_version)

\* the command line of the compile subprocess
CompileCmd ==
    IF compiler_cmd.s[1] = "npx"
    THEN compiler_cmd.s \o <<"--bin", "--abi", "--output-dir",
                             "compilation_output", "tmp_path">>
    ELSE compiler_cmd.s \o <<"--bin", "--abi", "-o",
                             "compilation_output", "tmp_path">>

VersionCmd == compiler_cmd.s \o <<"--version">>

----------------------------------------------------------------------------
(* Inputs and environment of check_compilation *)

L_pragma == <<"p","r","a","g","m","a"," ","s","o","l","i","d","i","t","y"," ","8",";">>
L_padded_pragma == <<"\t","p","r","a","g","m","a"," ","s","o","l","i","d","i","t","y"," ","8",";"," ">>
L_contract == <<"c","o","n","t","r","a","c","t"," ","C","{","}">>
L_comment == <<"/","/","p","r","a","g","m","a"," ","s","o","l","i","d","i","t","y">>
L_surrogate == <<"U+DC80">>

CompileSources ==
    { JoinLines(<<L_pragma, L_contract>>),
      JoinLines(<<L_comment, L_padded_pragma, L_contract>>),
      JoinLines(<<L_contract, L_surrogate>>),
      <<>> }

\* what the compiler can write to its standard error
StderrTexts ==
    { <<>>,
      <<"W","a","r","n","i","n","g",":"," ","a","\n">>,
      <<" ","W","a","r","n","i","n","g",":"," ","a","\n","E","r","r","o","r",":"," ","b","\n">>,
      <<"E","r","r","o","r",":"," ","b">>,
      <<"\t","W","a","r","n","i","n","g",":"," ","a","\n","x","\n","W","a","r","n","i","n","g",":"," ","b"," ">> }

\* what '--version' can write to its standard output
VersionOutputs == { <<"0",".","8",".","2","0","\n">>, <<>> }

NoRun == [kind |-> "norun"]

NoResult == [kind |-> "noresult"]

NoFault == [step |-> "none", kind |-> "none"]

CompileIdle ==
    /\ solidity_code = <<>>
    /\ compiler_cmd = PyNone
    /\ solc_available = FALSE
    /\ pc = "idle"
    /\ modified_code = <<>>
    /\ output_dir = "absent"
    /\ output_dir_created = FALSE
    /\ artifacts = FALSE
    /\ tmp_file = "absent"
    /\ tmp_content = <<>>
    /\ calls = <<>>
    /\ compile_run = NoRun
    /\ pending = NoResult
    /\ result = NoResult
    /\ raised = "none"
    /\ fault = NoFault

\* a constructed checker, a source, and the path 'compilation_output' being
\* absent, a directory or a regular file
InitCompile ==
    /\ solidity_code \in CompileSources
    /\ \E sp \in ProbeOutcomes, np \in ProbeOutcomes :
          /\ compiler_cmd = check_solc_available(sp, np)[1]
          /\ solc_available = check_solc_available(sp, np)[2]
    /\ pc = "ready"
    /\ modified_code = <<>>
    /\ output_dir \in {"absent", "dir", "file"}
    /\ output_dir_created = FALSE
    /\ artifacts = FALSE
    /\ tmp_file = "absent"
    /\ tmp_content = <<>>
    /\ calls = <<>>
    /\ compile_run = NoRun
    /\ pending = NoResult
    /\ result = NoResult
    /\ raised = "none"
    /\ fault = NoFault

\* Begin with the availability test placed after the output directory is made
BeginChecksAfterMkdir ==
    /\ pc = "ready"
    /\ IF ~solc_available
       THEN /\ result' = UnavailableResult
            /\ pc' = "done"
            /\ output_dir' = IF output_dir = "absent" THEN "dir" ELSE output_dir
            /\ output_dir_created' = (output_dir = "absent")
            /\ UNCHANGED modified_code
       ELSE /\ modified_code' = strip_version_pragma(solidity_code)
            /\ pc' = "mkdir"
            /\ UNCHANGED <<result, output_dir, output_dir_created>>
    /\ UNCHANGED <<solidity_code, compiler_cmd, solc_available,
                   artifacts, tmp_file, tmp_content, calls, compile_run,
                   pending, raised, fault>>
    /\ UNCHANGED <<decideVars, loopVars, stripVars, launchVars>>

\* check_compilation, entry: the early return when no compiler was found,
\* else the pragma is stripped
Begin ==
    /\ pc = "ready"
    /\ IF ~solc_available
       THEN /\ result' = UnavailableResult
            /\ pc' = "done"
            /\ UNCHANGED modified_code
       ELSE /\ modified_code' = strip_version_pragma(solidity_code)
            /\ pc' = "mkdir"
            /\ UNCHANGED result
    /\ UNCHANGED <<solidity_code, compiler_cmd, solc_available, output_dir,
                   output_dir_created, artifacts, tmp_file, tmp_content,
                   calls, compile_run, pending, raised, fault>>
    /\ UNCHANGED <<decideVars, loopVars, stripVars, launchVars>>

\* output_dir.mkdir(exist_ok=True), before the try block: an exception leaves
\* check_compilation
MakeOutputDir ==
    /\ pc = "mkdir"
    /\ \/ /\ output_dir = "dir"
          /\ pc' = "tmpfile"
          /\ UNCHANGED <<output_dir, output_dir_created, raised, fault>>
       \/ /\ output_dir = "absent"
          /\ output_dir' = "dir"
          /\ output_dir_created' = TRUE
          /\ pc' = "tmpfile"
          /\ UNCHANGED <<raised, fault>>
       \/ /\ output_dir = "absent"
          /\ raised' = "PermissionError"
          /\ fault' = [step |-> "mkdir", kind |-> "exception"]
          /\ pc' = "done"
          /\ UNCHANGED <<output_dir, output_dir_created>>
       \/ /\ output_dir = "file"
          /\ raised' = "FileExistsError"
          /\ fault' = [step |-> "mkdir", kind |-> "exception"]
          /\ pc' = "done"
          /\ UNCHANGED <<output_dir, output_dir_created>>
    /\ UNCHANGED <<solidity_code, compiler_cmd, solc_available, modified_code,
                   artifacts, tmp_file, tmp_content, calls, compile_run,
                   pending, result>>
    /\ UNCHANGED <<decideVars, loopVars, stripVars, launchVars>>

\* the with block: NamedTemporaryFile(delete=False) and write, before the try
\* block: an exception leaves check_compilation, and the file once created stays
WriteTempFile ==
    /\ pc = "tmpfile"
    /\ \/ /\ raised' = "OSError"
          /\ fault' = [step |-> "tmpfile", kind |-> "exception"]
          /\ pc' = "done"
          /\ UNCHANGED <<tmp_file, tmp_content>>
       \/ /\ tmp_file' = "present"
          /\ tmp_content' = <<>>
          /\ raised' = IF Encodable(modified_code)
                       THEN "OSError" ELSE "UnicodeEncodeError"
          /\ fault' = [step |-> "write", kind |-> "exception"]
          /\ pc' = "done"
       \/ /\ Encodable(modified_code)
          /\ tmp_file' = "present"
          /\ tmp_content' = modified_code
          /\ pc' = "compile"
          /\ UNCHANGED <<raised, fault>>
    /\ UNCHANGED <<solidity_code, compiler_cmd, solc_available, modified_code,
                   output_dir, output_dir_created, artifacts, calls,
                   compile_run, pending, result>>
    /\ UNCHANGED <<decideVars, loopVars, stripVars, launchVars>>

\* subprocess.run(compile_cmd, timeout=30) inside the try block
RunCompiler ==
    /\ pc = "compile"
    /\ calls' = Append(calls, [cmd |-> CompileCmd, timeout |-> CompileTimeout,
                               shell |-> (compiler_cmd.s[1] = "npx")])
    /\ \/ \E rc \in {0, 1}, err \in StderrTexts :
            /\ compile_run' = [returncode |-> rc, stderr |-> err]
            /\ \E written \in (IF rc = 0 THEN BOOLEAN ELSE {FALSE}) :
                  artifacts' = written
            /\ pc' = "version"
            /\ UNCHANGED <<pending, fault>>
       \/ /\ \E written \in BOOLEAN : artifacts' = written
          /\ pending' = TimeoutResult
          /\ fault' = [step |-> "compile", kind |-> "timeout"]
          /\ pc' = "cleanup"
          /\ UNCHANGED compile_run
       \/ /\ pending' = UnexpectedResult("OSError")
          /\ fault' = [step |-> "compile", kind |-> "exception"]
          /\ pc' = "cleanup"
          /\ UNCHANGED <<compile_run, artifacts>>
    /\ UNCHANGED <<solidity_code, compiler_cmd, solc_available, modified_code,
                   output_dir, output_dir_created, tmp_file, tmp_content,
                   result, raised>>
    /\ UNCHANGED <<decideVars, loopVars, stripVars, launchVars>>

\* RunVersion as if the version query stood after the try block
RunVersionOutsideTry ==
    /\ pc = "version"
    /\ calls' = Append(calls, [cmd |-> VersionCmd, timeout |-> VersionTimeout,
                               shell |-> (compiler_cmd.s[1] = "npx")])
    /\ \/ /\ \E rc \in {0, 1}, out \in VersionOutputs :
                pending' = ParseOutput(compile_run,
                              IF rc = 0 THEN PyStr(Strip(out))
                                        ELSE PyStr(S_unknown))
          /\ pc' = "cleanup"
          /\ UNCHANGED <<fault, raised>>
       \/ /\ raised' = "TimeoutExpired"
          /\ fault' = [step |-> "version", kind |-> "timeout"]
          /\ pc' = "done"
          /\ UNCHANGED pending
       \/ /\ raised' = "OSError"
          /\ fault' = [step |-> "version", kind |-> "exception"]
          /\ pc' = "done"
          /\ UNCHANGED pending
    /\ UNCHANGED <<solidity_code, compiler_cmd, solc_available, modified_code,
                   output_dir, output_dir_created, artifacts, tmp_file,
                   tmp_content, compile_run, result>>
    /\ UNCHANGED <<decideVars, loopVars, stripVars, launchVars>>

\* subprocess.run(version_cmd, timeout=5) inside the same try block, then the
\* result is built; its TimeoutExpired reaches the same handler as the
\* compiler's
RunVersion ==
    /\ pc = "version"
    /\ calls' = Append(calls, [cmd |-> VersionCmd, timeout |-> VersionTimeout,
                               shell |-> (compiler_cmd.s[1] = "npx")])
    /\ \/ /\ \E rc \in {0, 1}, out \in VersionOutputs :
                pending' = ParseOutput(compile_run,
                              IF rc = 0 THEN PyStr(Strip(out))
                                        ELSE PyStr(S_unknown))
          /\ UNCHANGED fault
       \/ /\ pending' = TimeoutResult
          /\ fault' = [step |-> "version", kind |-> "timeout"]
       \/ /\ pending' = UnexpectedResult("OSError")
          /\ fault' = [step |-> "version", kind |-> "exception"]
    /\ pc' = "cleanup"
    /\ UNCHANGED <<solidity_code, compiler_cmd, solc_available, modified_code,
                   output_dir, output_dir_created, artifacts, tmp_file,
                   tmp_content, compile_run, result, raised>>
    /\ UNCHANGED <<decideVars, loopVars, stripVars, launchVars>>

\* the finally block: os.unlink(tmp_path), a failure of it swallowed; then the
\* pending result is returned
Cleanup ==
    /\ pc = "cleanup"
    /\ \/ tmp_file' = "absent"
       \/ tmp_file' = tmp_file
    /\ result' = pending
    /\ pc' = "done"
    /\ UNCHANGED <<solidity_code, compiler_cmd, solc_available, modified_code,
                   output_dir, output_dir_created, artifacts, tmp_content,
                   calls, compile_run, pending, raised, fault>>
    /\ UNCHANGED <<decideVars, loopVars, stripVars, launchVars>>

----------------------------------------------------------------------------
(* Properties of should_refine, under SpecDecide *)

Called == decision # Pending

\* C1: whenever refinement_count >= max_iterations, should_refine returns
\* False, whatever the report holds (any severity value, any approved value,
\* either key missing); it does not raise.
C1_HardStop ==
    (Called /\ refinement_count >= max_iterations) => decision = Return(FALSE)

\* the hard stop on a report whose severity is no string and whose approved
\* key is missing
C1_Witness ==
    /\ decision = Return(FALSE)
    /\ refinement_count >= max_iterations
    /\ audit_report = MakeReport(TRUE, PyNone, FALSE, PyNone)

\* C2: below the limit, on a report with one of the six severity levels and
\* a boolean approved, should_refine returns True exactly when approved is
\* False and the severity is medium, high or critical.
C2_DecisionTable ==
    (Called /\ refinement_count < max_iterations /\ audit_report \in AuditReports)
    => decision =
         Return(/\ audit_report["approved"] = PyBool(FALSE)
                /\ audit_report["severity_level"] \in
                      {PyStr(S_medium), PyStr(S_high), PyStr(S_critical)})

\* an approved report of critical severity, below the limit: no refinement
C2_Witness ==
    /\ decision = Return(FALSE)
    /\ refinement_count < max_iterations
    /\ audit_report = MakeReport(TRUE, PyStr(S_critical), TRUE, PyBool(TRUE))

----------------------------------------------------------------------------
(* Properties of the audit/refine loop, under Spec and FairSpec *)

Unresolved(r) ==
    /\ r \in AuditReports
    /\ r["approved"] = PyBool(FALSE)
    /\ r["severity_level"] \in {PyStr(S_medium), PyStr(S_high), PyStr(S_critical)}

ShouldRefineNow ==
    should_refine(audit, iteration_count, max_refinement_iterations)

\* C3: iteration_count stays within 0..max_refinement_iterations and no step
\* decreases it, whatever reports the auditor produces.
C3_CountBounded ==
    /\ [](0 <= iteration_count /\ iteration_count <= max_refinement_iterations)
    /\ [][iteration_count' >= iteration_count]_vars

\* the limit is reached while the latest report still asks for refinement
C3_Witness ==
    /\ phase = "Audited"
    /\ max_refinement_iterations = MaxConfigured
    /\ iteration_count = max_refinement_iterations
    /\ Unresolved(audit)

\* C4: if no stage invocation raises, the request reaches Finalized; the step
\* to Finalized is taken from Audited exactly when should_refine returns
\* False for the latest report, and always once iteration_count has reached
\* the maximum.
C4_Terminates ==
    /\ ([](phase # "Aborted")) => <>(phase = "Finalized")
    /\ [][(phase # "Finalized" /\ phase' = "Finalized")
            => (phase = "Audited" /\ ShouldRefineNow = Return(FALSE))]_vars
    /\ [][(phase = "Audited" /\ ShouldRefineNow = Return(FALSE))
            => phase' = "Finalized"]_vars
    /\ [][(phase = "Audited" /\ iteration_count >= max_refinement_iterations)
            => phase' = "Finalized"]_vars

\* finalized after the maximum number of refinements, the report of every
\* audit having asked for another one
C4_Witness ==
    /\ phase = "Finalized"
    /\ max_refinement_iterations = MaxConfigured
    /\ refiner_calls = MaxConfigured
    /\ Unresolved(audit)

\* C5: Audited -> Refining is taken only when should_refine returns True, and
\* then the only other step is an abort; the step calls the refiner once, on
\* the current code and the latest report, and adds one to iteration_count;
\* from Refining the next step is one audit of the refined code (or an
\* abort); at Finalized refiner_calls = iteration_count and
\* auditor_calls = iteration_count + 1.
C5_RefineSteps ==
    /\ [][(phase = "Audited" /\ phase' = "Refining")
            => /\ ShouldRefineNow = Return(TRUE)
               /\ refiner_calls' = refiner_calls + 1
               /\ auditor_calls' = auditor_calls
               /\ iteration_count' = iteration_count + 1
               /\ refiner_input' = [code |-> code, report |-> audit,
                                    version |-> code_version]
               /\ audited_version = code_version]_vars
    /\ [][(phase = "Audited" /\ ShouldRefineNow = Return(TRUE))
            => phase' \in {"Refining", "Aborted"}]_vars
    /\ [][phase = "Refining"
            => \/ phase' = "Aborted"
               \/ /\ phase' = "Audited"
                  /\ auditor_calls' = auditor_calls + 1
                  /\ refiner_calls' = refiner_calls
                  /\ audited_version' = code_version
                  /\ code' = code]_vars
    /\ [](phase = "Finalized"
            => /\ refiner_calls = iteration_count
               /\ auditor_calls = iteration_count + 1)

\* a request finalized after two refinements and three audits
C5_Witness ==
    /\ phase = "Finalized"
    /\ iteration_count = 2
    /\ refiner_calls = 2
    /\ auditor_calls = 3

\* C6: at Finalized the result holds the most recently produced code and the
\* report of the audit of exactly that code, also when that report is
\* unapproved with severity medium, high or critical.
C6_ReturnsLatest ==
    phase = "Finalized"
    => /\ returned # NotReturned
       /\ returned.code = code
       /\ returned.code_version = code_version
       /\ returned.code_version = refiner_calls + 1
       /\ returned.audit = audit
       /\ returned.audited_version = returned.code_version

\* a refined code returned with an unapproved report of its own audit
C6_Witness ==
    /\ phase = "Finalized"
    /\ returned # NotReturned
    /\ Unresolved(returned.audit)
    /\ returned.code_version > 1
    /\ returned.audited_version = returned.code_version

----------------------------------------------------------------------------
(* Properties of check_compilation, under SpecCompile *)

NonEmptyMessage(m) ==
    CASE m.t = "lit"  -> m.text # ""
      [] m.t = "fmt"  -> m.prefix # ""
      [] m.t = "str"  -> Len(m.s) > 0
      [] m.t = "none" -> FALSE

CompileRuns == {i \in DOMAIN calls : calls[i].timeout = CompileTimeout}

\* C7: with no compiler available check_compilation returns
\* {compiles: None, error_message: not None, warnings: [], compiler_version:
\* None} for every source, raises nothing, and has by then made no directory,
\* written no temporary file and run no subprocess.
C7_Unavailable ==
    ~solc_available =>
        /\ pc \in {"ready", "done"}
        /\ raised = "none"
        /\ calls = <<>>
        /\ tmp_file = "absent"
        /\ ~output_dir_created
        /\ ~artifacts
        /\ pc = "done" =>
              /\ result.compiles = PyNone
              /\ result.error_message # PyNone
              /\ result.warnings = <<>>
              /\ result.compiler_version = PyNone

\* the degraded result for a source that could not even be written to a file,
\* in a directory that has no compilation_output
C7_Witness ==
    /\ ~solc_available
    /\ pc = "done"
    /\ result = UnavailableResult
    /\ ~Encodable(solidity_code)
    /\ output_dir = "absent"

\* C8: once check_compilation has returned or raised, nothing it created is
\* left: no temporary .sol file, no output directory made by the call, no
\* compilation artifacts.
C8_ArtifactsRemoved ==
    pc = "done" =>
        /\ tmp_file = "absent"
        /\ ~output_dir_created
        /\ ~artifacts

\* C9 as claimed: with a compiler available nothing is raised to the caller,
\* and a fault at any step ends in a result with compiles = False and a
\* non-empty error_message.
C9_NeverPropagates ==
    (solc_available /\ pc = "done") =>
        /\ raised = "none"
        /\ fault # NoFault =>
              /\ result.compiles = PyBool(FALSE)
              /\ NonEmptyMessage(result.error_message)

\* C9 as amended: a timeout or exception of the compile subprocess or of the
\* version subprocess is returned as a result with compiles = False and a
\* non-empty error_message and nothing is raised; an exception while making
\* the output directory or writing the temporary file is raised to the
\* caller and no result is returned.
C9_SubprocessFaultsReported ==
    (solc_available /\ pc = "done") =>
        /\ fault.step \in {"compile", "version"} =>
              /\ raised = "none"
              /\ result.compiles = PyBool(FALSE)
              /\ NonEmptyMessage(result.error_message)
              /\ result.warnings = <<>>
              /\ result.compiler_version = PyNone
        /\ fault.step \in {"mkdir", "tmpfile", "write"} =>
              /\ raised # "none"
              /\ result = NoResult
        /\ fault = NoFault => (raised = "none" /\ result # NoResult)

\* an exception of the version subprocess, after a completed compile, returned
\* as a failed compilation
C9_Witness ==
    /\ solc_available
    /\ pc = "done"
    /\ fault = [step |-> "version", kind |-> "exception"]
    /\ compile_run # NoRun
    /\ raised = "none"
    /\ result = UnexpectedResult("OSError")

\* C10: the compiler is run at most once, with a timeout of 30 seconds, and
\* the result is the 'Compilation timed out after 30 seconds' result exactly
\* when that compile run exceeded its timeout.
C10_TimeoutOnlyForCompile ==
    (solc_available /\ pc = "done") =>
        /\ Cardinality(CompileRuns) <= 1
        /\ \A i \in CompileRuns : calls[i].cmd = CompileCmd
        /\ (result = TimeoutResult)
              <=> (fault = [step |-> "compile", kind |-> "timeout"])

\* the lines of the text that contain 'Warning:', as they are, in their order
VerbatimWarnings(stderr) ==
    SelectSeq(SplitLines(stderr), LAMBDA l : Contains(l, S_warning_marker))

\* the text without its lines that contain 'Warning:'
OtherContent(stderr) ==
    JoinLines(SelectSeq(SplitLines(stderr),
                        LAMBDA l : ~Contains(l, S_warning_marker)))

\* check_compilation returned the result built from a completed compile run
\* and a completed version query
ParsedRun ==
    /\ solc_available
    /\ pc = "done"
    /\ compile_run # NoRun
    /\ fault = NoFault

\* C12 as claimed: for a completed run, warnings holds the stderr lines with
\* 'Warning:' verbatim and in order, whatever the exit code, and on a
\* non-zero exit code error_message is the rest of stderr.
C12_WarningsVerbatim ==
    ParsedRun =>
        /\ result.warnings = VerbatimWarnings(compile_run.stderr)
        /\ compile_run.returncode # 0 =>
              result.error_message \in
                  {PyStr(OtherContent(compile_run.stderr)),
                   PyStr(Strip(OtherContent(compile_run.stderr)))}

\* C12 as amended: on exit code 0, warnings holds the stderr lines with
\* 'Warning:', each with its leading and trailing whitespace removed, in their
\* order, and error_message is None; on a non-zero exit code warnings is empty
\* and error_message is the whole of stderr, warning lines included, with its
\* leading and trailing whitespace removed.
C12_WarningsStripped ==
    ParsedRun =>
        LET lines == VerbatimWarnings(compile_run.stderr)
        IN  IF compile_run.returncode = 0
            THEN /\ result.compiles = PyBool(TRUE)
                 /\ result.warnings = [i \in 1..Len(lines) |-> Strip(lines[i])]
                 /\ result.error_message = PyNone
            ELSE /\ result.compiles = PyBool(FALSE)
                 /\ result.warnings = <<>>
                 /\ result.error_message = PyStr(Strip(compile_run.stderr))

\* exit code 0 with two padded warning lines: both collected, in order,
\* without their padding
C12_Witness ==
    /\ ParsedRun
    /\ compile_run.returncode = 0
    /\ Len(VerbatimWarnings(compile_run.stderr)) = 2
    /\ result.warnings = <<S_warning_marker \o <<" ", "a">>,
                           S_warning_marker \o <<" ", "b">>>>
    /\ result.warnings # VerbatimWarnings(compile_run.stderr)

----------------------------------------------------------------------------
(* _strip_version_pragma as a function of the source text, under SpecStrip *)

L_empty == <<>>
L_two_spaces == <<"p","r","a","g","m","a"," "," ","s","o","l","i","d","i","t","y"," ","8",";">>
L_glued == <<"p","r","a","g","m","a"," ","s","o","l","i","d","i","t","y","X">>

\* the lines source texts are built from
StripLines ==
    {L_pragma, L_padded_pragma, L_contract, L_comment, L_empty,
     L_two_spaces, L_glued}

\* the sequences of at most n lines
LineSeqs(n) == UNION {[1..k -> StripLines] : k \in 0..n}

NotStripped == [kind |-> "notstripped"]

StripIdle ==
    /\ strip_lines = <<>>
    /\ stripped = NotStripped
    /\ stripped_again = NotStripped

InitStrip ==
    /\ strip_lines \in LineSeqs(MaxSourceLines)
    /\ stripped = NotStripped
    /\ stripped_again = NotStripped

\* the call on the text '\n'.join(strip_lines)
CallStrip ==
    /\ stripped = NotStripped
    /\ stripped' = PyStr(strip_version_pragma(JoinLines(strip_lines)))
    /\ UNCHANGED <<strip_lines, stripped_again>>
    /\ UNCHANGED <<decideVars, loopVars, compileVars, launchVars>>

\* a second call, on the text the first call returned
CallStripAgain ==
    /\ stripped # NotStripped
    /\ stripped_again = NotStripped
    /\ stripped_again' = PyStr(strip_version_pragma(stripped.s))
    /\ UNCHANGED <<strip_lines, stripped>>
    /\ UNCHANGED <<decideVars, loopVars, compileVars, launchVars>>

\* the line has 'pragma solidity' right after its leading whitespace
IsPragmaLine(l) ==
    \E i \in 1..Len(l) :
        /\ \A j \in 1..(i - 1) : l[j] \in Whitespace
        /\ i + Len(S_pragma_solidity) - 1 <= Len(l)
        /\ \A k \in 1..Len(S_pragma_solidity) :
               l[i + k - 1] = S_pragma_solidity[k]

\* the input lines that are no pragma lines, in their order
KeptLines(lines) == SelectSeq(lines, LAMBDA l : ~IsPragmaLine(l))

\* C11: the text returned is the join of exactly the input lines that are no
\* 'pragma solidity' lines, unchanged and in their order, and stripping the
\* returned text again returns it unchanged.
C11_StripsPragmaLines ==
    /\ stripped # NotStripped
          => stripped = PyStr(JoinLines(KeptLines(strip_lines)))
    /\ stripped_again # NotStripped => stripped_again = stripped

\* a padded pragma line removed from between two kept lines, the second call
\* made
C11_Witness ==
    /\ strip_lines = <<L_comment, L_padded_pragma, L_contract>>
    /\ stripped = PyStr(JoinLines(<<L_comment, L_contract>>))
    /\ stripped_again = stripped

----------------------------------------------------------------------------
(* launch_demo.py: the launcher script, top to bottom *)

\* required_packages: import name and pip name, in the order of the dict
required_packages ==
    << <<"flask", "flask">>, <<"flask_cors", "flask-cors">>,
       <<"fastmcp", "fastmcp">>, <<"agentics", "agentics">>,
       <<"PyPDF2", "PyPDF2">>, <<"pydantic", "pydantic">> >>

ImportNames == {required_packages[i][1] : i \in DOMAIN required_packages}

PyInt(v) == [t |-> "int", v |-> v]

demo_url == "http://localhost:8000/demo.html"

sampler_url == "http://localhost:8000/sampler.html"

LaunchIdle ==
    /\ demo_exists = FALSE
    /\ sampler_exists = FALSE
    /\ importable = {}
    /\ lpc = "idle"
    /\ dep_index = 1
    /\ pip_installed = <<>>
    /\ printed = <<>>
    /\ http_server = "not_started"
    /\ api_process = "none"
    /\ open_calls = <<>>
    /\ exit_code = PyNone

\* the script starts with the two demo files present or not and with any
\* subset of the required packages importable
InitLaunch ==
    /\ demo_exists \in BOOLEAN
    /\ sampler_exists \in BOOLEAN
    /\ importable \in SUBSET ImportNames
    /\ lpc = "deps"
    /\ dep_index = 1
    /\ pip_installed = <<>>
    /\ printed = <<>>
    /\ http_server = "not_started"
    /\ api_process = "none"
    /\ open_calls = <<>>
    /\ exit_code = PyNone

\* one pass of the dependency loop: import, and pip install on ImportError; a
\* failing check_call is not caught and ends the script with exit code 1
CheckDependency ==
    /\ lpc = "deps"
    /\ dep_index <= Len(required_packages)
    /\ \/ /\ required_packages[dep_index][1] \in importable
          /\ dep_index' = dep_index + 1
          /\ UNCHANGED <<pip_installed, lpc, exit_code>>
       \/ /\ required_packages[dep_index][1] \notin importable
          /\ pip_installed' =
                Append(pip_installed, required_packages[dep_index][2])
          /\ dep_index' = dep_index + 1
          /\ UNCHANGED <<lpc, exit_code>>
       \/ /\ required_packages[dep_index][1] \notin importable
          /\ lpc' = "exited"
          /\ exit_code' = PyInt(1)
          /\ UNCHANGED <<pip_installed, dep_index>>
    /\ UNCHANGED <<demo_exists, sampler_exists, importable, printed,
                   http_server, api_process, open_calls>>
    /\ UNCHANGED <<decideVars, loopVars, compileVars, stripVars>>

\* CheckDemoFile that only warns when demo.html is missing
CheckDemoFileWarnsOnly ==
    /\ lpc = "deps"
    /\ dep_index > Len(required_packages)
    /\ printed' = IF demo_exists THEN printed
                  ELSE Append(printed, "error_demo_not_found")
    /\ lpc' = "check_sampler"
    /\ UNCHANGED <<demo_exists, sampler_exists, importable, dep_index,
                   pip_installed, http_server, api_process, open_calls,
                   exit_code>>
    /\ UNCHANGED <<decideVars, loopVars, compileVars, stripVars>>

\* if not demo_file.exists(): print the error, sys.exit(1)
CheckDemoFile ==
    /\ lpc = "deps"
    /\ dep_index > Len(required_packages)
    /\ IF demo_exists
       THEN /\ lpc' = "check_sampler"
            /\ UNCHANGED <<printed, exit_code>>
       ELSE /\ printed' = Append(printed, "error_demo_not_found")
            /\ lpc' = "exited"
            /\ exit_code' = PyInt(1)
    /\ UNCHANGED <<demo_exists, sampler_exists, importable, dep_index,
                   pip_installed, http_server, api_process, open_calls>>
    /\ UNCHANGED <<decideVars, loopVars, compileVars, stripVars>>

\* if not sampler_file.exists(): print the warning, else the confirmation
CheckSamplerFile ==
    /\ lpc = "check_sampler"
    /\ printed' = Append(printed, IF sampler_exists
                                  THEN "demo_files_found"
                                  ELSE "warning_sampler_not_found")
    /\ lpc' = "start_http"
    /\ UNCHANGED <<demo_exists, sampler_exists, importable, dep_index,
                   pip_installed, http_server, api_process, open_calls,
                   exit_code>>
    /\ UNCHANGED <<decideVars, loopVars, compileVars, stripVars>>

\* http_thread.start(): the daemon thread binds localhost:8000 and serves, or
\* dies on an exception of its own
StartHttpServer ==
    /\ lpc = "start_http"
    /\ \E s \in {"serving", "thread_failed"} : http_server' = s
    /\ lpc' = "spawn_api"
    /\ UNCHANGED <<demo_exists, sampler_exists, importable, dep_index,
                   pip_installed, printed, api_process, open_calls, exit_code>>
    /\ UNCHANGED <<decideVars, loopVars, compileVars, stripVars>>

\* subprocess.Popen of chatbot_api.py inside the try block; an exception of
\* it is reported and ends the script with exit code 1
SpawnApi ==
    /\ lpc = "spawn_api"
    /\ \/ /\ api_process' = "spawned"
          /\ lpc' = "open_demo"
          /\ UNCHANGED <<printed, exit_code>>
       \/ /\ api_process' = "spawn_failed"
          /\ printed' = Append(printed, "failed_to_start_api")
          /\ lpc' = "exited"
          /\ exit_code' = PyInt(1)
    /\ UNCHANGED <<demo_exists, sampler_exists, importable, dep_index,
                   pip_installed, http_server, open_calls>>
    /\ UNCHANGED <<decideVars, loopVars, compileVars, stripVars>>

\* after the sleep: webbrowser.open(demo_url); an exception skips the second
\* page
OpenDemo ==
    /\ lpc = "open_demo"
    /\ open_calls' = Append(open_calls, demo_url)
    /\ \/ /\ lpc' = "open_sampler"
          /\ UNCHANGED printed
       \/ /\ printed' = Append(printed, "open_manually")
          /\ lpc' = "waiting"
    /\ UNCHANGED <<demo_exists, sampler_exists, importable, dep_index,
                   pip_installed, http_server, api_process, exit_code>>
    /\ UNCHANGED <<decideVars, loopVars, compileVars, stripVars>>

\* webbrowser.open(sampler_url)
OpenSampler ==
    /\ lpc = "open_sampler"
    /\ open_calls' = Append(open_calls, sampler_url)
    /\ \/ UNCHANGED printed
       \/ printed' = Append(printed, "open_manually")
    /\ lpc' = "waiting"
    /\ UNCHANGED <<demo_exists, sampler_exists, importable, dep_index,
                   pip_installed, http_server, api_process, exit_code>>
    /\ UNCHANGED <<decideVars, loopVars, compileVars, stripVars>>

\* chatbot_process.wait() returns: the script ends
WaitForApi ==
    /\ lpc = "waiting"
    /\ api_process' = "exited"
    /\ lpc' = "exited"
    /\ exit_code' = PyInt(0)
    /\ UNCHANGED <<demo_exists, sampler_exists, importable, dep_index,
                   pip_installed, printed, http_server, open_calls>>
    /\ UNCHANGED <<decideVars, loopVars, compileVars, stripVars>>

\* KeyboardInterrupt inside the try block, after Popen: terminate, wait five
\* seconds, kill on timeout, sys.exit(0)
Interrupt ==
    /\ lpc \in {"open_demo", "open_sampler", "waiting"}
    /\ printed' = Append(printed, "shutting_down")
    /\ \E s \in {"terminated", "killed"} : api_process' = s
    /\ lpc' = "exited"
    /\ exit_code' = PyInt(0)
    /\ UNCHANGED <<demo_exists, sampler_exists, importable, dep_index,
                   pip_installed, http_server, open_calls>>
    /\ UNCHANGED <<decideVars, loopVars, compileVars, stripVars>>

----------------------------------------------------------------------------
(* Properties of the launcher, under SpecLaunch *)

NothingStarted ==
    /\ http_server = "not_started"
    /\ api_process = "none"
    /\ open_calls = <<>>

HasPrinted(m) == \E i \in DOMAIN printed : printed[i] = m

\* C13: with demo.html missing the file check prints the error and exits
\* with code 1, and the HTTP server thread, the API process and the browser
\* are never started; with demo.html present and sampler.html missing the
\* check prints a warning, does not exit, and the script goes on to start
\* the HTTP server thread and to spawn the API process.
C13_MissingFiles ==
    /\ [](~demo_exists =>
            /\ NothingStarted
            /\ lpc \in {"deps", "exited"}
            /\ lpc = "exited" => exit_code = PyInt(1))
    /\ [][(lpc = "deps" /\ dep_index > Len(required_packages) /\ ~demo_exists)
            => /\ lpc' = "exited"
               /\ exit_code' = PyInt(1)
               /\ printed' = Append(printed, "error_demo_not_found")]_vars
    /\ [][(lpc = "check_sampler" /\ ~sampler_exists)
            => /\ demo_exists
               /\ printed' = Append(printed, "warning_sampler_not_found")
               /\ lpc' = "start_http"
               /\ exit_code' = PyNone]_vars
    /\ [][lpc = "start_http"
            => (http_server' # "not_started" /\ lpc' = "spawn_api")]_vars
    /\ [][lpc = "spawn_api"
            => api_process' \in {"spawned", "spawn_failed"}]_vars
    /\ []((~sampler_exists /\ lpc \in {"open_demo", "open_sampler", "waiting"})
            => /\ HasPrinted("warning_sampler_not_found")
               /\ http_server # "not_started"
               /\ api_process = "spawned")

\* every package importable, sampler.html present, demo.html missing: exit
\* code 1 with nothing started
C13_Witness ==
    /\ ~demo_exists
    /\ sampler_exists
    /\ importable = ImportNames
    /\ lpc = "exited"
    /\ exit_code = PyInt(1)
    /\ printed = <<"error_demo_not_found">>
    /\ NothingStarted

----------------------------------------------------------------------------
(* Specifications *)

InitDecideSpec == InitDecide /\ LoopIdle /\ CompileIdle /\ StripIdle /\ LaunchIdle

NextDecide == CallShouldRefine

SpecDecide == InitDecideSpec /\ [][NextDecide]_vars

Init == InitLoop /\ DecideIdle /\ CompileIdle /\ StripIdle /\ LaunchIdle

NextLoop ==
    \/ Parse
    \/ Generate
    \/ Audit
    \/ Refine
    \/ Finalize
    \/ StageRaises

Spec == Init /\ [][NextLoop]_vars

InitCompileSpec == InitCompile /\ DecideIdle /\ LoopIdle /\ StripIdle /\ LaunchIdle

NextCompile ==
    \/ Begin
    \/ MakeOutputDir
    \/ WriteTempFile
    \/ RunCompiler
    \/ RunVersion
    \/ Cleanup

SpecCompile == InitCompileSpec /\ [][NextCompile]_vars

InitStripSpec == InitStrip /\ DecideIdle /\ LoopIdle /\ CompileIdle /\ LaunchIdle

NextStrip ==
    \/ CallStrip
    \/ CallStripAgain

SpecStrip == InitStripSpec /\ [][NextStrip]_vars

InitLaunchSpec ==
    InitLaunch /\ DecideIdle /\ LoopIdle /\ CompileIdle /\ StripIdle

NextLaunch ==
    \/ CheckDependency
    \/ CheckDemoFile
    \/ CheckSamplerFile
    \/ StartHttpServer
    \/ SpawnApi
    \/ OpenDemo
    \/ OpenSampler
    \/ WaitForApi
    \/ Interrupt

SpecLaunch == InitLaunchSpec /\ [][NextLaunch]_vars

\* the orchestrator is sequential code: it takes its next step when it has one
FairSpec == Spec /\ WF_vars(NextLoop)

====
